---- MODULE Spec2Model ----
(***************************************************************************)
(* Transcription job pipeline of the Spotify podcast transcriber           *)
(* (src/server.js): the job handler POST /api/transcript, the progress     *)
(* store, the scratch files, the splitter and the merge function.          *)
(*                                                                         *)
(* Texts are sequences of one-character strings.  Paths are records        *)
(* [episode, stamp, compressed, chunk]: `${episodeId}_${Date.now()}.mp3`,  *)
(* with "_compressed" and "_chunk_<i>" inserted before ".mp3".             *)
(***************************************************************************)
EXTENDS Integers, Sequences, FiniteSets, TLC

VARIABLES
    alive,          \* the server process is running
    env,            \* process.env: which optional keys are configured
    pc,             \* per job: the await the handler is suspended at
    progressStore,  \* the Map jobId -> progress object
    files,          \* paths that exist under TEMP_DIR
    job,            \* per job: the handler's local variables
    hist,           \* per job: log of external calls (observation only)
    timers,         \* per job: pending setTimeout(delete) callbacks, oldest
                    \* first; each is the set of progress streams whose
                    \* 500 ms interval has not fired since it was set
    streams,        \* per connection to GET /api/progress/:jobId
    response,       \* the answer of GET /api/result/:jobId sent by the step
                    \* just taken, Null if that was not a result read
    mergeIn,        \* argument of a direct mergeTranscriptions call
    mergeOut,       \* its return value
    splitIn,        \* duration handed to the chunk-window computation
    splitOut,       \* the ffmpeg windows computed for it
    publishIn,      \* store and arguments of a direct updateProgress call
    publishOut      \* the store after it

vars == <<alive, env, pc, progressStore, files, job, hist, timers,
          streams, response, mergeIn, mergeOut, splitIn, splitOut,
          publishIn, publishOut>>

clientVars == <<streams, response>>
pipelineVars == <<alive, env, pc, progressStore, files, job, hist, timers,
                  clientVars>>
mergeVars == <<mergeIn, mergeOut>>
splitVars == <<splitIn, splitOut>>
publishVars == <<publishIn, publishOut>>

-----------------------------------------------------------------------------
(* Program constants *)

MAX_FILE_SIZE_MB == 25
CHUNK_DURATION_SECONDS == 600
CHUNK_OVERLAP_SECONDS == 10
BytesPerMB == 1048576
RetentionMs == 60000
ProgressIntervalMs == 500

(* Bounds of the model *)

MaxSplitDuration == 2500   \* longest duration (s) given to the splitter alone
MaxTimers == 2             \* pending eviction timers tracked per job
DlParts == 2               \* progress events of one download
MaxMergeSegs == 3          \* segments in a direct merge call

-----------------------------------------------------------------------------
(* JavaScript values *)

Null == [null |-> TRUE]
Undefined == [undefined |-> TRUE]

Max(a, b) == IF a >= b THEN a ELSE b

\* Math.ceil(a / b) for a >= 0, b > 0
Ceil(a, b) == (a + b - 1) \div b

\* Math.round(a / b) for a >= 0, b > 0 (halves round up)
Round(a, b) == (2 * a + b) \div (2 * b)

-----------------------------------------------------------------------------
(* String functions *)

Whitespace == {" ", "\n", "\t"}

\* the k-th smallest element of a finite set of integers
Nth(S, k) == CHOOSE p \in S : Cardinality({q \in S : q <= p}) = k

\* String.prototype.split(' '): cut at every single space; empty pieces stay
SplitSpace(s) ==
    LET spaces == {i \in 1..Len(s) : s[i] = " "}
        n == Cardinality(spaces)
        cut == [k \in 0..(n + 1) |->
                  IF k = 0 THEN 0
                  ELSE IF k = n + 1 THEN Len(s) + 1
                  ELSE Nth(spaces, k)]
    IN  [k \in 1..(n + 1) |-> SubSeq(s, cut[k - 1] + 1, cut[k] - 1)]

\* Array.prototype.slice(k)
Slice(a, k) == IF k >= Len(a) THEN <<>> ELSE SubSeq(a, k + 1, Len(a))

\* Array.prototype.join(' ')
JoinSpace(a) ==
    LET n == Len(a)
        \* position before the first character of piece k
        before == [k \in 1..n |->
                     (k - 1) + Cardinality(UNION {{<<m, c>> : c \in 1..Len(a[m])} :
                                                   m \in 1..(k - 1)})]
    IN  IF n = 0 THEN <<>>
        ELSE [i \in 1..(before[n] + Len(a[n])) |->
                LET k == CHOOSE m \in 1..n :
                           before[m] < i /\ i <= before[m] + Len(a[m]) + 1
                IN  IF i <= before[k] + Len(a[k]) THEN a[k][i - before[k]]
                    ELSE " "]

\* String.prototype.trim()
Trim(s) ==
    LET solid == {i \in 1..Len(s) : s[i] \notin Whitespace}
    IN  IF solid = {} THEN <<>>
        ELSE SubSeq(s, Nth(solid, 1), Nth(solid, Cardinality(solid)))

-----------------------------------------------------------------------------
(* mergeTranscriptions *)

overlapWords == Ceil(CHUNK_OVERLAP_SECONDS * 2, 1)

\* body of the loop for i >= 1: drop the first overlapWords pieces
TextWithoutOverlap(text) == JoinSpace(Slice(SplitSpace(text), overlapWords))

RECURSIVE MergeLoop(_, _, _)
MergeLoop(transcriptions, i, mergedText) ==
    IF i > Len(transcriptions) THEN mergedText
    ELSE IF i = 1
         THEN MergeLoop(transcriptions, i + 1, transcriptions[i].text)
         ELSE MergeLoop(transcriptions, i + 1,
                        mergedText \o <<" ">> \o
                        TextWithoutOverlap(transcriptions[i].text))

\* variant of mergeTranscriptions that returns the concatenation as it is
mergeTranscriptionsUntrimmed(transcriptions) ==
    IF Len(transcriptions) = 1 THEN transcriptions[1].text
    ELSE MergeLoop(transcriptions, 1, <<>>)

mergeTranscriptions(transcriptions) ==
    IF Len(transcriptions) = 1 THEN transcriptions[1].text
    ELSE Trim(MergeLoop(transcriptions, 1, <<>>))

-----------------------------------------------------------------------------
(* splitAudioIntoChunks: the window arithmetic *)

\* variant of NumChunks that counts the full chunk lengths only
NumChunksFloor(duration) == duration \div CHUNK_DURATION_SECONDS

NumChunks(duration) == Ceil(duration, CHUNK_DURATION_SECONDS)

\* variant of StartTime without the clamp at zero
StartTimeUnclamped(i) == i * CHUNK_DURATION_SECONDS - CHUNK_OVERLAP_SECONDS

StartTime(i) == Max(0, i * CHUNK_DURATION_SECONDS - CHUNK_OVERLAP_SECONDS)

ChunkSpan == CHUNK_DURATION_SECONDS + CHUNK_OVERLAP_SECONDS

\* the ffmpeg invocation for chunk i (0-based)
ChunkWindow(i) == [index |-> i, start |-> StartTime(i), span |-> ChunkSpan]

-----------------------------------------------------------------------------
(* Jobs, requests and the external world *)

AllJobs == {"j1", "j2"}       \* job identifiers (crypto.randomBytes: distinct)
OneJob == {"j1"}

Episodes == {"ep"}            \* episode ids that occur in submitted URLs
Stamps == {1}                 \* values Date.now() returns at download start

CeilingBytes == MAX_FILE_SIZE_MB * BytesPerMB

\* sizes (bytes) a downloaded file can have: empty, at the ceiling, above it
SourceSizes == {0, CeilingBytes, CeilingBytes + 1}
\* sizes a compressed file can have
CompressedSizes == {1, CeilingBytes + 1}
\* durations (s) ffprobe reports in the pipeline: 0, 1, 2, 3 and 4 chunks
ProbeDurations == {0, 600, 601, 1800, 2100}

\* what the speech-to-text provider answers for a file: a long text whose
\* first twenty words are the overlap, or a short one with a leading space
Marker(path) == IF path.chunk < 0 THEN "s" ELSE ToString(path.chunk)

LongText(path) ==
    JoinSpace([k \in 1..(overlapWords + 2) |->
                 IF k <= overlapWords THEN <<"o">>
                 ELSE IF k = overlapWords + 1 THEN <<Marker(path)>>
                 ELSE <<"x">>])

ShortText(path) == <<" ", Marker(path)>>

ProviderTexts(path) == {LongText(path), ShortText(path)}

SummaryTexts == { <<"T", "L", "D", "R">> }

-----------------------------------------------------------------------------
(* The progress store *)

Keys == {"metadata", "rss", "parse", "download", "compress", "splitting",
         "transcribe", "merge", "summary", "complete", "error", "result"}

StepNames == Keys \ {"result"}

EmptyProgress == [k \in Keys |-> Undefined]

True == [bool |-> TRUE]

StepEntry(percentage, message) ==
    [percentage |-> percentage, message |-> message]

IsEntry(v) == "percentage" \in DOMAIN v

\* JavaScript truthiness of a property of a progress object
Truthy(v) == v # Undefined /\ v # Null

MapSet(st, j, v) == [k \in DOMAIN st \cup {j} |-> IF k = j THEN v ELSE st[k]]

MapDelete(st, j) == [k \in DOMAIN st \ {j} |-> st[k]]

\* progressStore.get(jobId) || {}
GetOrEmpty(st, j) == IF j \in DOMAIN st THEN st[j] ELSE EmptyProgress

updateProgress(st, j, step, percentage, message) ==
    MapSet(st, j, [GetOrEmpty(st, j) EXCEPT
                     ![step] = StepEntry(percentage, message)])

\* progressStore.get(jobId).<key> = <val>
SetProperty(st, j, key, val) == MapSet(st, j, [st[j] EXCEPT ![key] = val])

-----------------------------------------------------------------------------
(* Paths *)

DownloadPath(episodeId, stamp) ==
    [episode |-> episodeId, stamp |-> stamp, compressed |-> FALSE, chunk |-> -1]

\* inputPath.replace('.mp3', '_compressed.mp3')
CompressedPath(inputPath) == [inputPath EXCEPT !.compressed = TRUE]

\* inputPath.replace('.mp3', `_chunk_${i}.mp3`)
ChunkPath(inputPath, i) == [inputPath EXCEPT !.chunk = i]

-----------------------------------------------------------------------------
(* Initial state *)

InitJob ==
    [spotifyUrl     |-> Undefined,  \* the request body
     providedRssUrl |-> FALSE,
     filepath       |-> Null,       \* downloadAudio: filepath
     total          |-> 0,          \* declared content length (0: unknown)
     loaded         |-> 0,          \* progress events delivered
     streamOpen     |-> FALSE,      \* the response stream can still emit
     tempFilePath   |-> Null,
     fileSize       |-> 0,          \* what getFileSizeMB(audioPath) measures
     compressedPath |-> Null,
     finalSize      |-> 0,          \* getFileSizeMB(compressedPath)
     inputPath      |-> Null,       \* splitAudioIntoChunks: inputPath
     numChunks      |-> 0,
     i              |-> 0,          \* loop index of the running loop
     chunks         |-> <<>>,
     transcriptions |-> <<>>,
     transcript     |-> Null,
     summary        |-> Null]

InitHist ==
    [ffmpeg   |-> <<>>,    \* chunk windows handed to ffmpeg, in order
     calls    |-> <<>>,    \* files sent to the speech-to-text provider
     answers  |-> <<>>,    \* [path, ok, text] of every call that returned
     inFlight |-> 0,       \* provider calls issued and not yet returned
     merged   |-> <<>>,    \* arguments of every mergeTranscriptions call
     webhooks |-> 0,       \* notifications posted
     failure  |-> Null,    \* [message]: what made the handler give up
     compress |-> "none",  \* how the ffmpeg run of compressAudio ended
     summary  |-> "none",  \* how summariseWithGemini ended
     evicted  |-> FALSE]   \* the delete timer has removed the entry

\* connections to the progress endpoint, and the job ids a client can ask for
Streams == {"s1"}
InitStream ==
    [status |-> "none",   \* "open": the interval runs; "ended": the server
                          \* ended it; "gone": the client closed it
     jobId  |-> "j1",     \* req.params.jobId
     early  |-> FALSE,    \* open, and opened before the job showed complete
     done   |-> FALSE]    \* a snapshot with complete: true was written

PipelineInit ==
    /\ alive = TRUE
    /\ env \in [geminiKey : BOOLEAN, webhookUrl : BOOLEAN]
    /\ pc = [j \in AllJobs |-> "idle"]
    /\ progressStore = [j \in {} |-> EmptyProgress]
    /\ files = {}
    /\ job = [j \in AllJobs |-> InitJob]
    /\ hist = [j \in AllJobs |-> InitHist]
    /\ timers = [j \in AllJobs |-> <<>>]
    /\ streams = [s \in Streams |-> InitStream]
    /\ response = Null

NoMerge == mergeIn = <<>> /\ mergeOut = Null
NoSplit == splitIn = 0 /\ splitOut = Null
NoPublish == publishIn = Null /\ publishOut = Null

Init == PipelineInit /\ NoMerge /\ NoSplit /\ NoPublish

-----------------------------------------------------------------------------
(* Shared pieces of the handler POST /api/transcript.  Each takes the store, *)
(* the files, the job's locals and its log as they are at that point of the *)
(* handler and fixes the next state.                                        *)

Goto(j, st, fl, jb, hs, where) ==
    /\ progressStore' = st
    /\ files' = fl
    /\ job' = [job EXCEPT ![j] = jb]
    /\ hist' = [hist EXCEPT ![j] = hs]
    /\ pc' = [pc EXCEPT ![j] = where]
    /\ response' = Null

\* fs.unlink; a failure is logged and swallowed
cleanupFile(fl, filepath) == fl \ {filepath}

\* variant of ExceedsLimit that also rejects a file of exactly the limit
ExceedsLimitInclusive(bytes) == bytes >= MAX_FILE_SIZE_MB * BytesPerMB

\* fileSizeMB > MAX_FILE_SIZE_MB with fileSizeMB = bytes / (1024 * 1024)
ExceedsLimit(bytes) == bytes > MAX_FILE_SIZE_MB * BytesPerMB

\* observation: the message the handler gives up with
LogFailure(hs, message) == [hs EXCEPT !.failure = [message |-> message]]

\* variant of ErrorReturn that publishes the 'error' entry and leaves the
\* complete marker for later
ErrorReturnUnmarked(st, j, message) ==
    updateProgress(st, j, "error", 100, message)

\* early return of the handler with an 'error' entry
ErrorReturn(st, j, message) ==
    SetProperty(updateProgress(st, j, "error", 100, message),
                j, "complete", True)

\* the catch block: the reference to spotifyData, which is declared inside
\* the try block, throws before sendWebhook is called; the handler's
\* promise is rejected
CatchBlock(j, st, fl, jb, hs, message) ==
    Goto(j, ErrorReturn(st, j, message),
         IF jb.tempFilePath # Null THEN cleanupFile(fl, jb.tempFilePath)
                                   ELSE fl,
         jb, LogFailure(hs, message), "rejected")

\* variant of StoreResult that publishes the last step and sets the marker
\* without storing the result
StoreResultMarkerOnly(j, st, fl, jb, hs) ==
    LET st1 == updateProgress(st, j, "complete", 100, "Transcription complete!")
        st3 == SetProperty(st1, j, "complete", True)
    IN  Goto(j, st3, cleanupFile(fl, jb.tempFilePath),
             [jb EXCEPT !.tempFilePath = Null], hs, "returned")

\* steps 7 and 8: clean up the download, store the result
StoreResult(j, st, fl, jb, hs) ==
    LET result == [success |-> TRUE, transcript |-> jb.transcript,
                   summary |-> jb.summary]
        st1 == updateProgress(st, j, "complete", 100, "Transcription complete!")
        st2 == SetProperty(st1, j, "result", result)
        st3 == SetProperty(st2, j, "complete", True)
    IN  Goto(j, st3, cleanupFile(fl, jb.tempFilePath),
             [jb EXCEPT !.tempFilePath = Null], hs, "returned")

\* variant of summariseWithGemini in which a missing API key is an exception
summariseWithGeminiRequiresKey(j, st, fl, jb, hs) ==
    IF ~env.geminiKey
    THEN CatchBlock(j, st, fl, jb, [hs EXCEPT !.summary = "nokey"],
                    "Gemini API key not configured")
    ELSE Goto(j, updateProgress(st, j, "summary", 0,
                                "Summarising transcript with Gemini..."),
              fl, jb, hs, "summarise")

\* step 6: summariseWithGemini up to its first await
summariseWithGemini(j, st, fl, jb, hs) ==
    IF ~env.geminiKey
    THEN StoreResult(j, updateProgress(st, j, "summary", 100,
                        "Summary skipped (Gemini API key not configured)"),
                     fl, [jb EXCEPT !.summary = Null],
                     [hs EXCEPT !.summary = "nokey"])
    ELSE Goto(j, updateProgress(st, j, "summary", 0,
                                "Summarising transcript with Gemini..."),
              fl, jb, hs, "summarise")

\* transcribeWithGroq up to the provider call
transcribeWithGroq(j, st, fl, jb, hs, filepath) ==
    Goto(j, updateProgress(st, j, "transcribe", 0, "Transcribing..."),
         fl, jb,
         [hs EXCEPT !.calls = Append(@, filepath), !.inFlight = @ + 1],
         "transcribe")

Reverse(a) == [k \in 1..Len(a) |-> a[Len(a) + 1 - k]]

\* variant of MergeAndReturn that collects the transcriptions newest first
MergeAndReturnReversed(j, st, fl, jb, hs) ==
    LET mergedText == mergeTranscriptions(Reverse(jb.transcriptions))
        st2 == updateProgress(st, j, "merge", 100, "Merge complete")
        fl1 == IF jb.compressedPath # Null /\ jb.compressedPath # jb.tempFilePath
               THEN cleanupFile(fl, jb.compressedPath) ELSE fl
    IN  summariseWithGemini(j, st2, fl1,
                            [jb EXCEPT !.transcript = [text |-> mergedText]],
                            [hs EXCEPT !.merged =
                                         Append(@, Reverse(jb.transcriptions))])

\* after the chunk loop: merge, delete the compressed file, return the text
MergeAndReturn(j, st, fl, jb, hs) ==
    LET st1 == updateProgress(st, j, "merge", 0, "Merging transcriptions...")
        mergedText == mergeTranscriptions(jb.transcriptions)
        st2 == updateProgress(st1, j, "merge", 100, "Merge complete")
        fl1 == IF jb.compressedPath # Null /\ jb.compressedPath # jb.tempFilePath
               THEN cleanupFile(fl, jb.compressedPath) ELSE fl
    IN  summariseWithGemini(j, st2, fl1,
                            [jb EXCEPT !.transcript = [text |-> mergedText]],
                            [hs EXCEPT !.merged = Append(@, jb.transcriptions)])

\* processTranscription up to its first await after the size check
processTranscription(j, st, fl, jb, hs) ==
    IF ExceedsLimit(jb.fileSize)
    THEN Goto(j, st, fl, [jb EXCEPT !.inputPath = jb.tempFilePath], hs, "probe")
    ELSE Goto(j, updateProgress(st, j, "compress", 0, "Compressing audio..."),
              fl, jb, hs, "compress")

-----------------------------------------------------------------------------
(* The handler, one action per await *)

Urls == {[kind |-> "episode", id |-> e] : e \in Episodes}
        \cup {[kind |-> "other", id |-> ""], [kind |-> "missing", id |-> ""]}

\* variant of Submit that answers with the id and leaves the first write to
\* the table to the continuation after the metadata request
SubmitLazy(j) ==
    /\ alive
    /\ pc[j] = "idle"
    /\ \E url \in Urls, rss \in BOOLEAN :
         LET jb == [job[j] EXCEPT !.spotifyUrl = url, !.providedRssUrl = rss]
         IN  IF url.kind = "missing"
             THEN Goto(j, progressStore, files, jb, hist[j], "returned")
             ELSE Goto(j, progressStore, files, jb, hist[j], "metadata")
    /\ UNCHANGED <<alive, env, timers, streams, mergeVars, splitVars, publishVars>>

\* POST /api/transcript up to the first await
Submit(j) ==
    /\ alive
    /\ pc[j] = "idle"
    /\ \E url \in Urls, rss \in BOOLEAN :
         LET jb == [job[j] EXCEPT !.spotifyUrl = url, !.providedRssUrl = rss]
         IN  IF url.kind = "missing"
             THEN Goto(j, progressStore, files, jb, hist[j], "returned")
             ELSE Goto(j, updateProgress(progressStore, j, "metadata", 0,
                                         "Fetching Spotify metadata..."),
                       files, jb, hist[j], "metadata")
    /\ UNCHANGED <<alive, env, timers, streams, mergeVars, splitVars, publishVars>>

\* spotifyUrlInfo.getData returned
MetadataReturn(j) ==
    /\ alive
    /\ pc[j] = "metadata"
    /\ \E outcome \in {"data", "null", "throw"} :
         LET st1 == updateProgress(progressStore, j, "metadata", 100,
                                   "Metadata fetched")
         IN  CASE outcome = "throw" ->
                    CatchBlock(j, progressStore, files, job[j], hist[j],
                               "metadata request failed")
               [] outcome = "null" ->
                    Goto(j, ErrorReturn(progressStore, j,
                              "Could not fetch episode data from Spotify"),
                         files, job[j],
                         LogFailure(hist[j],
                              "Could not fetch episode data from Spotify"),
                         "returned")
               [] outcome = "data" /\ ~job[j].providedRssUrl ->
                    Goto(j, updateProgress(st1, j, "rss", 0,
                                           "Finding RSS feed..."),
                         files, job[j], hist[j], "rss")
               [] outcome = "data" /\ job[j].providedRssUrl ->
                    Goto(j, updateProgress(
                              updateProgress(st1, j, "rss", 100,
                                             "Using provided RSS feed"),
                              j, "parse", 0, "Parsing RSS feed..."),
                         files, job[j], hist[j], "parse")
    /\ UNCHANGED <<alive, env, timers, streams, mergeVars, splitVars, publishVars>>

\* findRssFeed returned (it catches its own errors)
RssReturn(j) ==
    /\ alive
    /\ pc[j] = "rss"
    /\ \E found \in BOOLEAN :
         IF found
         THEN Goto(j, updateProgress(
                        updateProgress(progressStore, j, "rss", 100,
                                       "RSS feed found"),
                        j, "parse", 0, "Parsing RSS feed..."),
                   files, job[j], hist[j], "parse")
         ELSE LET st1 == ErrorReturn(progressStore, j,
                                     "Unable to find RSS feed")
                  hs1 == LogFailure(hist[j], "Unable to find RSS feed")
              IN  IF env.webhookUrl
                  THEN Goto(j, st1, files, job[j],
                            [hs1 EXCEPT !.webhooks = @ + 1], "rss_webhook")
                  ELSE Goto(j, st1, files, job[j], hs1, "returned")
    /\ UNCHANGED <<alive, env, timers, streams, mergeVars, splitVars, publishVars>>

\* sendWebhook of the feed-not-found return came back (errors swallowed)
RssWebhookReturn(j) ==
    /\ alive
    /\ pc[j] = "rss_webhook"
    /\ Goto(j, progressStore, files, job[j], hist[j], "returned")
    /\ UNCHANGED <<alive, env, timers, streams, mergeVars, splitVars, publishVars>>

\* rssParser.parseURL returned; episode matching; downloadAudio up to axios
ParseReturn(j) ==
    /\ alive
    /\ pc[j] = "parse"
    /\ \E outcome \in {"ok", "noAudio", "throw"}, stamp \in Stamps :
         LET st1 == updateProgress(progressStore, j, "parse", 100,
                                   "RSS parsed successfully")
             filepath == DownloadPath(job[j].spotifyUrl.id, stamp)
         IN  CASE outcome = "throw" ->
                    CatchBlock(j, progressStore, files, job[j], hist[j],
                               "feed could not be parsed")
               [] outcome = "noAudio" ->
                    Goto(j, ErrorReturn(progressStore, j,
                              "No audio URL found for this episode"),
                         files, job[j],
                         LogFailure(hist[j],
                              "No audio URL found for this episode"),
                         "returned")
               [] outcome = "ok" /\ job[j].spotifyUrl.kind # "episode" ->
                    CatchBlock(j, st1, files, job[j], hist[j],
                               "Invalid Spotify episode URL")
               [] outcome = "ok" /\ job[j].spotifyUrl.kind = "episode" ->
                    Goto(j, updateProgress(st1, j, "download", 0,
                                           "Starting download..."),
                         files, [job[j] EXCEPT !.filepath = filepath],
                         hist[j], "dl_request")
    /\ UNCHANGED <<alive, env, timers, streams, mergeVars, splitVars, publishVars>>

\* variant of DownloadResponse in which downloadAudio resolves as soon as the
\* response is piped into the write stream
DownloadResponseEager(j) ==
    /\ alive
    /\ pc[j] = "dl_request"
    /\ \/ CatchBlock(j, progressStore, files, job[j], hist[j],
                     "Request failed")
       \/ \E size \in SourceSizes, total \in {0, DlParts} :
            processTranscription(j, progressStore,
                 files \cup {job[j].filepath},
                 [job[j] EXCEPT !.fileSize = size, !.total = total,
                                !.loaded = 0, !.streamOpen = TRUE,
                                !.tempFilePath = job[j].filepath],
                 hist[j])
    /\ UNCHANGED <<alive, env, timers, streams, mergeVars, splitVars, publishVars>>

\* the axios request of downloadAudio settled; on success the write stream
\* is created and the response is piped into it
DownloadResponse(j) ==
    /\ alive
    /\ pc[j] = "dl_request"
    /\ \/ CatchBlock(j, progressStore, files, job[j], hist[j],
                     "Request failed")
       \/ \E size \in SourceSizes, total \in {0, DlParts} :
            Goto(j, progressStore, files \cup {job[j].filepath},
                 [job[j] EXCEPT !.fileSize = size, !.total = total,
                                !.loaded = 0, !.streamOpen = TRUE],
                 hist[j], "dl_stream")
    /\ UNCHANGED <<alive, env, timers, streams, mergeVars, splitVars, publishVars>>

\* onDownloadProgress: fires while the response stream delivers data,
\* whatever the handler is doing
DownloadProgress(j) ==
    /\ alive
    /\ job[j].streamOpen
    /\ job[j].fileSize > 0
    /\ job[j].loaded < DlParts
    /\ LET loaded == job[j].loaded + 1
           percentage == Round(loaded * 100, job[j].total)
       IN  /\ job' = [job EXCEPT ![j].loaded = loaded]
           /\ progressStore' =
                IF job[j].total # 0
                THEN updateProgress(progressStore, j, "download", percentage,
                                    "Downloading audio...")
                ELSE progressStore
    /\ response' = Null
    /\ UNCHANGED <<alive, env, pc, files, hist, timers, streams,
                   mergeVars, splitVars, publishVars>>

\* variant of DownloadFinish after which progress events of the download
\* can still arrive
DownloadFinishStreamOpen(j) ==
    /\ alive
    /\ pc[j] = "dl_stream"
    /\ processTranscription(j,
         updateProgress(progressStore, j, "download", 100, "Download complete"),
         files,
         [job[j] EXCEPT !.tempFilePath = job[j].filepath],
         hist[j])
    /\ UNCHANGED <<alive, env, timers, streams, mergeVars, splitVars, publishVars>>

\* writer 'finish': downloadAudio resolves, processTranscription starts
DownloadFinish(j) ==
    /\ alive
    /\ pc[j] = "dl_stream"
    /\ processTranscription(j,
         updateProgress(progressStore, j, "download", 100, "Download complete"),
         files,
         [job[j] EXCEPT !.tempFilePath = job[j].filepath,
                        !.streamOpen = FALSE],
         hist[j])
    /\ UNCHANGED <<alive, env, timers, streams, mergeVars, splitVars, publishVars>>

\* writer 'error': downloadAudio rejects; tempFilePath is still null and
\* nothing stops the response stream
DownloadWriterError(j) ==
    /\ alive
    /\ pc[j] = "dl_stream"
    /\ CatchBlock(j, progressStore, files, job[j], hist[j], "write failed")
    /\ UNCHANGED <<alive, env, timers, streams, mergeVars, splitVars, publishVars>>

\* the response stream fails: pipe() forwards neither 'end' nor the error,
\* so the writer emits neither 'finish' nor 'error'
DownloadStreamError(j) ==
    /\ alive
    /\ pc[j] = "dl_stream"
    /\ Goto(j, progressStore, files, [job[j] EXCEPT !.streamOpen = FALSE],
            hist[j], "hung")
    /\ UNCHANGED <<alive, env, timers, streams, mergeVars, splitVars, publishVars>>

\* variant of CompressReturn in which a failed ffmpeg run is thrown to the
\* handler instead of being answered with the input path
CompressReturnThrows(j) ==
    /\ alive
    /\ pc[j] = "compress"
    /\ \E ok \in BOOLEAN, outSize \in CompressedSizes :
         LET outputPath == CompressedPath(job[j].tempFilePath)
             st1 == updateProgress(progressStore, j, "compress", 100,
                                   "Compression complete")
             jb1 == [job[j] EXCEPT !.compressedPath = outputPath,
                                   !.finalSize = outSize]
             hs1 == [hist[j] EXCEPT
                       !.compress = IF ok THEN "ok" ELSE "failed"]
         IN  IF ~ok
             THEN CatchBlock(j, progressStore, files, job[j], hs1,
                             "ffmpeg failed")
             ELSE IF ExceedsLimit(jb1.finalSize)
             THEN Goto(j, st1, files \cup {outputPath},
                       [jb1 EXCEPT !.inputPath = jb1.compressedPath],
                       hs1, "probe")
             ELSE transcribeWithGroq(j, st1, files \cup {outputPath}, jb1,
                                     hs1, jb1.compressedPath)
    /\ UNCHANGED <<alive, env, timers, streams, mergeVars, splitVars, publishVars>>

\* compressAudio: the ffmpeg command ended; on failure the input path is
\* returned and no progress entry is written
CompressReturn(j) ==
    /\ alive
    /\ pc[j] = "compress"
    /\ \E ok \in BOOLEAN, outSize \in CompressedSizes :
         LET outputPath == CompressedPath(job[j].tempFilePath)
             st1 == IF ok THEN updateProgress(progressStore, j, "compress", 100,
                                              "Compression complete")
                          ELSE progressStore
             fl1 == IF ok THEN files \cup {outputPath} ELSE files
             jb1 == [job[j] EXCEPT
                       !.compressedPath = IF ok THEN outputPath
                                          ELSE job[j].tempFilePath,
                       !.finalSize = IF ok THEN outSize ELSE job[j].fileSize]
             hs1 == [hist[j] EXCEPT
                       !.compress = IF ok THEN "ok" ELSE "failed"]
         IN  IF ExceedsLimit(jb1.finalSize)
             THEN Goto(j, st1, fl1,
                       [jb1 EXCEPT !.inputPath = jb1.compressedPath],
                       hs1, "probe")
             ELSE transcribeWithGroq(j, st1, fl1, jb1, hs1,
                                     jb1.compressedPath)
    /\ UNCHANGED <<alive, env, timers, streams, mergeVars, splitVars, publishVars>>

\* splitAudioIntoChunks: ffprobe returned; the first ffmpeg run is started
ProbeReturn(j) ==
    /\ alive
    /\ pc[j] = "probe"
    /\ \/ CatchBlock(j, progressStore, files, job[j], hist[j], "ffprobe failed")
       \/ \E duration \in ProbeDurations :
            LET numChunks == NumChunks(duration)
                st1 == updateProgress(progressStore, j, "splitting", 0,
                                      "Splitting into chunks...")
                jb1 == [job[j] EXCEPT !.numChunks = numChunks, !.i = 0,
                                      !.chunks = <<>>]
            IN  IF 0 < numChunks
                THEN Goto(j, st1, files, jb1,
                          [hist[j] EXCEPT !.ffmpeg = Append(@, ChunkWindow(0))],
                          "split")
                ELSE MergeAndReturn(j,
                       updateProgress(st1, j, "splitting", 100,
                                      "Audio splitting complete"),
                       files, jb1, hist[j])
    /\ UNCHANGED <<alive, env, timers, streams, mergeVars, splitVars, publishVars>>

\* ffmpeg 'end' for chunk i: the next run starts, or the chunk loop of
\* processTranscription starts with the first provider call
SplitChunkEnd(j) ==
    /\ alive
    /\ pc[j] = "split"
    /\ LET i == job[j].i
           numChunks == job[j].numChunks
           chunkPath == ChunkPath(job[j].inputPath, i)
           st1 == updateProgress(progressStore, j, "splitting",
                                 Round((i + 1) * 100, numChunks),
                                 "Created chunk")
           fl1 == files \cup {chunkPath}
           jb1 == [job[j] EXCEPT !.chunks = Append(@, chunkPath)]
       IN  IF i + 1 < numChunks
           THEN Goto(j, st1, fl1, [jb1 EXCEPT !.i = i + 1],
                     [hist[j] EXCEPT !.ffmpeg = Append(@, ChunkWindow(i + 1))],
                     "split")
           ELSE transcribeWithGroq(j,
                  updateProgress(st1, j, "splitting", 100,
                                 "Audio splitting complete"),
                  fl1, [jb1 EXCEPT !.i = 0], hist[j], jb1.chunks[1])
    /\ UNCHANGED <<alive, env, timers, streams, mergeVars, splitVars, publishVars>>

\* variant of SplitChunkError that runs ffmpeg again for the same chunk
SplitChunkErrorRetried(j) ==
    /\ alive
    /\ pc[j] = "split"
    /\ Goto(j, progressStore, files, job[j],
            [hist[j] EXCEPT !.ffmpeg = Append(@, ChunkWindow(job[j].i))],
            "split")
    /\ UNCHANGED <<alive, env, timers, streams, mergeVars, splitVars, publishVars>>

\* ffmpeg 'error' for chunk i
SplitChunkError(j) ==
    /\ alive
    /\ pc[j] = "split"
    /\ CatchBlock(j, progressStore, files, job[j], hist[j], "ffmpeg failed")
    /\ UNCHANGED <<alive, env, timers, streams, mergeVars, splitVars, publishVars>>

\* the provider call returned a transcription
TranscribeReturn(j) ==
    /\ alive
    /\ pc[j] = "transcribe"
    /\ LET filepath == hist[j].calls[Len(hist[j].calls)]
           i == job[j].i
           totalChunks == Len(job[j].chunks)
       IN  \E text \in ProviderTexts(filepath) :
             LET hs1 == [hist[j] EXCEPT
                           !.answers = Append(@, [path |-> filepath, ok |-> TRUE,
                                                  text |-> text]),
                           !.inFlight = @ - 1]
             IN  IF job[j].inputPath # Null
                 THEN \* chunk loop: push, then await cleanupFile(chunks[i])
                      LET st1 == updateProgress(progressStore, j, "transcribe",
                                   Round((i + 1) * 100, totalChunks),
                                   "Transcribed chunk")
                          jb1 == [job[j] EXCEPT
                                    !.transcriptions = Append(@, [text |-> text])]
                      IN  Goto(j, st1, files, jb1, hs1, "chunk_cleanup")
                 ELSE \* single file
                      LET st1 == updateProgress(progressStore, j, "transcribe",
                                   100, "Transcription complete")
                          fl1 == IF job[j].compressedPath # job[j].tempFilePath
                                 THEN cleanupFile(files, job[j].compressedPath)
                                 ELSE files
                      IN  summariseWithGemini(j, st1, fl1,
                            [job[j] EXCEPT !.transcript = [text |-> text]], hs1)
    /\ UNCHANGED <<alive, env, timers, streams, mergeVars, splitVars, publishVars>>

\* chunk loop: the unlink of chunks[i] is done; next i, or the merge
ChunkCleanupReturn(j) ==
    /\ alive
    /\ pc[j] = "chunk_cleanup"
    /\ LET i == job[j].i
           totalChunks == Len(job[j].chunks)
           fl1 == cleanupFile(files, job[j].chunks[i + 1])
           jb1 == [job[j] EXCEPT !.i = i + 1]
       IN  IF i + 1 < totalChunks
           THEN transcribeWithGroq(j, progressStore, fl1, jb1, hist[j],
                                   job[j].chunks[i + 2])
           ELSE MergeAndReturn(j, progressStore, fl1, jb1, hist[j])
    /\ UNCHANGED <<alive, env, timers, streams, mergeVars, splitVars, publishVars>>

\* variant of TranscribeFail in which the chunk loop swallows the failure of
\* a chunk and goes on with the next one
TranscribeFailSkipped(j) ==
    /\ alive
    /\ pc[j] = "transcribe"
    /\ LET filepath == hist[j].calls[Len(hist[j].calls)]
           i == job[j].i
           hs1 == [hist[j] EXCEPT
                     !.answers = Append(@, [path |-> filepath, ok |-> FALSE,
                                            text |-> <<>>]),
                     !.inFlight = @ - 1]
           jb1 == [job[j] EXCEPT !.i = i + 1]
       IN  IF job[j].inputPath = Null
           THEN CatchBlock(j, progressStore, files, job[j], hs1,
                           "provider error")
           ELSE IF i + 1 < Len(job[j].chunks)
                THEN transcribeWithGroq(j, progressStore, files, jb1, hs1,
                                        job[j].chunks[i + 2])
                ELSE MergeAndReturn(j, progressStore, files, jb1, hs1)
    /\ UNCHANGED <<alive, env, timers, streams, mergeVars, splitVars, publishVars>>

\* the provider call failed: transcribeWithGroq throws
TranscribeFail(j) ==
    /\ alive
    /\ pc[j] = "transcribe"
    /\ LET filepath == hist[j].calls[Len(hist[j].calls)]
       IN  CatchBlock(j, progressStore, files, job[j],
             [hist[j] EXCEPT
                !.answers = Append(@, [path |-> filepath, ok |-> FALSE,
                                       text |-> <<>>]),
                !.inFlight = @ - 1],
             "provider error")
    /\ UNCHANGED <<alive, env, timers, streams, mergeVars, splitVars, publishVars>>

\* the Gemini request of summariseWithGemini settled
SummaryReturn(j) ==
    /\ alive
    /\ pc[j] = "summarise"
    /\ \/ \E summaryText \in SummaryTexts :
            LET st1 == updateProgress(progressStore, j, "summary", 90,
                                      "Sending summary via email...")
                jb1 == [job[j] EXCEPT !.summary = [text |-> Trim(summaryText)]]
            IN  IF env.webhookUrl
                THEN Goto(j, st1, files, jb1,
                          [hist[j] EXCEPT !.webhooks = @ + 1,
                                          !.summary = "ok"],
                          "summary_webhook")
                ELSE StoreResult(j,
                       updateProgress(st1, j, "summary", 100,
                                      "Summary sent to email"),
                       files, jb1, [hist[j] EXCEPT !.summary = "ok"])
       \/ StoreResult(j,
            updateProgress(progressStore, j, "summary", 100,
                           "Summary skipped (no response from Gemini)"),
            files, [job[j] EXCEPT !.summary = Null],
            [hist[j] EXCEPT !.summary = "empty"])
       \/ LET st1 == updateProgress(progressStore, j, "summary", 100,
                       "Could not generate summary (Gemini error)")
              jb1 == [job[j] EXCEPT !.summary = Null]
          IN  IF env.webhookUrl
              THEN Goto(j, st1, files, jb1,
                        [hist[j] EXCEPT !.webhooks = @ + 1,
                                        !.summary = "error"],
                        "summary_webhook")
              ELSE StoreResult(j, st1, files, jb1,
                               [hist[j] EXCEPT !.summary = "error"])
    /\ UNCHANGED <<alive, env, timers, streams, mergeVars, splitVars, publishVars>>

\* sendWebhook inside summariseWithGemini came back (errors swallowed)
SummaryWebhookReturn(j) ==
    /\ alive
    /\ pc[j] = "summary_webhook"
    /\ StoreResult(j,
         IF job[j].summary # Null
         THEN updateProgress(progressStore, j, "summary", 100,
                             "Summary sent to email")
         ELSE progressStore,
         files, job[j], hist[j])
    /\ UNCHANGED <<alive, env, timers, streams, mergeVars, splitVars, publishVars>>

\* the rejected promise of a handler is not handled by anything; where the
\* runtime treats that as fatal the process ends and every connection with it
Crash ==
    /\ alive
    /\ \E j \in AllJobs : pc[j] = "rejected"
    /\ alive' = FALSE
    /\ streams' = [s \in Streams |->
                     IF streams[s].status = "open"
                     THEN [streams[s] EXCEPT !.status = "reset",
                                             !.early = FALSE]
                     ELSE streams[s]]
    /\ response' = Null
    /\ UNCHANGED <<env, pc, progressStore, files, job, hist, timers,
                   mergeVars, splitVars, publishVars>>

-----------------------------------------------------------------------------
(* GET /api/result/:jobId and the eviction timer it sets *)

\* the streams of job j whose interval is running
OpenStreams(j) ==
    {s \in Streams : streams[s].status = "open" /\ streams[s].jobId = j}

\* stream s no longer holds back any timer
Release(tm, s) ==
    [j \in AllJobs |-> [k \in 1..Len(tm[j]) |-> tm[j][k] \ {s}]]

\* variant of ResultAnswer that answers a job without result or error with
\* whatever the table holds for it
ResultAnswerPartial(st, j) ==
    IF j \notin DOMAIN st
    THEN [status |-> 404, body |-> [error |-> "Job not found"]]
    ELSE IF Truthy(st[j]["result"])
    THEN [status |-> 200, body |-> st[j]["result"]]
    ELSE IF Truthy(st[j]["error"])
    THEN [status |-> 500, body |-> [error |-> st[j]["error"].message]]
    ELSE [status |-> 200, body |-> st[j]]

\* the status and body the handler sends
ResultAnswer(st, j) ==
    IF j \notin DOMAIN st
    THEN [status |-> 404, body |-> [error |-> "Job not found"]]
    ELSE IF Truthy(st[j]["result"])
    THEN [status |-> 200, body |-> st[j]["result"]]
    ELSE IF Truthy(st[j]["error"])
    THEN [status |-> 500, body |-> [error |-> st[j]["error"].message]]
    ELSE [status |-> 202,
          body |-> [message |-> "Transcription still in progress"]]

ResultRead(j) ==
    /\ alive
    /\ response' = [jobId |-> j] @@ ResultAnswer(progressStore, j)
    /\ IF j \in DOMAIN progressStore /\ Truthy(progressStore[j]["result"])
       THEN /\ Len(timers[j]) < MaxTimers
            /\ timers' = [timers EXCEPT ![j] = Append(@, OpenStreams(j))]
       ELSE timers' = timers
    /\ UNCHANGED <<alive, env, pc, progressStore, files, job, hist, streams,
                   mergeVars, splitVars, publishVars>>

\* variant of Evict in which a timer deletes the entry only when no later
\* read has set another timer
EvictDebounced(j) ==
    /\ alive
    /\ timers[j] # <<>>
    /\ Head(timers[j]) = {} \/ RetentionMs < ProgressIntervalMs
    /\ timers' = [timers EXCEPT ![j] = Tail(@)]
    /\ progressStore' = IF Len(timers[j]) = 1
                        THEN MapDelete(progressStore, j)
                        ELSE progressStore
    /\ hist' = [hist EXCEPT ![j].evicted = (Len(timers[j]) = 1)]
    /\ response' = Null
    /\ UNCHANGED <<alive, env, pc, files, job, streams, mergeVars, splitVars, publishVars>>

\* setTimeout(() => progressStore.delete(jobId), 60000) fires: the oldest
\* timer first, and after every 500 ms interval that was running when it
\* was set has fired
Evict(j) ==
    /\ alive
    /\ timers[j] # <<>>
    /\ Head(timers[j]) = {} \/ RetentionMs < ProgressIntervalMs
    /\ timers' = [timers EXCEPT ![j] = Tail(@)]
    /\ progressStore' = MapDelete(progressStore, j)
    /\ hist' = [hist EXCEPT ![j].evicted = TRUE]
    /\ response' = Null
    /\ UNCHANGED <<alive, env, pc, files, job, streams, mergeVars, splitVars, publishVars>>

-----------------------------------------------------------------------------
(* GET /api/progress/:jobId *)

StreamConnect(s, j) ==
    /\ alive
    /\ streams[s].status = "none"
    /\ streams' = [streams EXCEPT
                     ![s] = [status |-> "open", jobId |-> j, done |-> FALSE,
                             early |-> ~(/\ j \in DOMAIN progressStore
                                         /\ Truthy(progressStore[j]["complete"]))]]
    /\ response' = Null
    /\ UNCHANGED <<alive, env, pc, progressStore, files, job, hist, timers,
                   mergeVars, splitVars, publishVars>>

\* the interval callback: writes the snapshot if the job has an entry, and
\* ends the stream if the snapshot says complete
StreamTick(s) ==
    /\ alive
    /\ streams[s].status = "open"
    /\ LET jobId == streams[s].jobId
       IN  streams' =
             IF /\ jobId \in DOMAIN progressStore
                /\ Truthy(progressStore[jobId]["complete"])
             THEN [streams EXCEPT ![s].status = "ended", ![s].done = TRUE,
                                  ![s].early = FALSE]
             ELSE streams
    /\ timers' = Release(timers, s)
    /\ response' = Null
    /\ UNCHANGED <<alive, env, pc, progressStore, files, job, hist,
                   mergeVars, splitVars, publishVars>>

\* variant of StreamDisconnect in which the job of the stream is dropped
\* with the connection
StreamDisconnectCancels(s) ==
    /\ alive
    /\ streams[s].status = "open"
    /\ streams' = [streams EXCEPT ![s].status = "gone", ![s].early = FALSE]
    /\ timers' = Release(timers, s)
    /\ progressStore' = MapDelete(progressStore, streams[s].jobId)
    /\ response' = Null
    /\ UNCHANGED <<alive, env, pc, files, job, hist, mergeVars, splitVars, publishVars>>

\* req.on('close'): the client went away
StreamDisconnect(s) ==
    /\ alive
    /\ streams[s].status = "open"
    /\ streams' = [streams EXCEPT ![s].status = "gone", ![s].early = FALSE]
    /\ timers' = Release(timers, s)
    /\ response' = Null
    /\ UNCHANGED <<alive, env, pc, progressStore, files, job, hist,
                   mergeVars, splitVars, publishVars>>

ClientNext ==
    \/ \E s \in Streams, j \in OneJob : StreamConnect(s, j)
    \/ \E s \in Streams : StreamTick(s)
    \/ \E s \in Streams : StreamDisconnect(s)

-----------------------------------------------------------------------------
(* The pipeline *)

JobNext(j) ==
    \/ Submit(j)
    \/ MetadataReturn(j)
    \/ RssReturn(j)
    \/ RssWebhookReturn(j)
    \/ ParseReturn(j)
    \/ DownloadResponse(j)
    \/ DownloadProgress(j)
    \/ DownloadFinish(j)
    \/ DownloadWriterError(j)
    \/ DownloadStreamError(j)
    \/ CompressReturn(j)
    \/ ProbeReturn(j)
    \/ SplitChunkEnd(j)
    \/ SplitChunkError(j)
    \/ TranscribeReturn(j)
    \/ ChunkCleanupReturn(j)
    \/ TranscribeFail(j)
    \/ SummaryReturn(j)
    \/ SummaryWebhookReturn(j)
    \/ ResultRead(j)
    \/ Evict(j)

\* the steps of the handler of job j alone
PipelineStep(j) ==
    \/ Submit(j)
    \/ MetadataReturn(j)
    \/ RssReturn(j)
    \/ RssWebhookReturn(j)
    \/ ParseReturn(j)
    \/ DownloadResponse(j)
    \/ DownloadFinish(j)
    \/ DownloadWriterError(j)
    \/ DownloadStreamError(j)
    \/ CompressReturn(j)
    \/ ProbeReturn(j)
    \/ SplitChunkEnd(j)
    \/ SplitChunkError(j)
    \/ TranscribeReturn(j)
    \/ ChunkCleanupReturn(j)
    \/ TranscribeFail(j)
    \/ SummaryReturn(j)
    \/ SummaryWebhookReturn(j)

Next == (\E j \in OneJob : JobNext(j)) \/ Crash

Spec == Init /\ [][Next]_vars

\* the same with the progress streams of one client
NextClient == (\E j \in OneJob : JobNext(j)) \/ ClientNext \/ Crash

SpecClient == Init /\ [][NextClient]_vars

\* every pending await settles, every interval fires, every timer fires;
\* clients and the fate of an unhandled rejection are left open
Fairness ==
    /\ \A j \in OneJob : WF_vars(PipelineStep(j))
    /\ \A j \in OneJob : WF_vars(Evict(j))
    /\ \A s \in Streams : WF_vars(StreamTick(s))

FairSpec == SpecClient /\ Fairness

-----------------------------------------------------------------------------
(* mergeTranscriptions called on its own *)

\* the server before any request
Idle ==
    /\ alive = TRUE
    /\ env = [geminiKey |-> FALSE, webhookUrl |-> FALSE]
    /\ pc = [j \in AllJobs |-> "idle"]
    /\ progressStore = [j \in {} |-> EmptyProgress]
    /\ files = {}
    /\ job = [j \in AllJobs |-> InitJob]
    /\ hist = [j \in AllJobs |-> InitHist]
    /\ timers = [j \in AllJobs |-> <<>>]
    /\ streams = [s \in Streams |-> InitStream]
    /\ response = Null

Leads == {<<>>, <<" ">>}
Trails == {<<>>, <<" ">>}
Separators == {<<" ">>, <<" ", " ">>, <<"\n">>, <<"\t">>}

\* texts of a first segment
FirstTexts ==
    {lead \o body \o trail :
       lead \in Leads, trail \in Trails,
       body \in {<<>>, <<"a">>, <<"a", " ", "b">>, <<"a", " ", " ", "b">>,
                 <<"a", "\n", "b">>}}

\* the k-th word of a later segment: the overlap words, then "y", then "z"
Word(k) == IF k <= overlapWords THEN <<"o">>
           ELSE IF k = overlapWords + 1 THEN <<"y">> ELSE <<"z">>

\* ntok words separated by single spaces, except for sep after word sepAt
GenText(ntok, sepAt, sep, lead, trail) ==
    LET words == [k \in 1..ntok |-> Word(k)]
    IN  lead
        \o (IF ntok = 0 THEN <<>>
            ELSE IF sepAt >= ntok THEN JoinSpace(words)
            ELSE JoinSpace(SubSeq(words, 1, sepAt)) \o sep
                 \o JoinSpace(SubSeq(words, sepAt + 1, ntok)))
        \o trail

\* texts of a second segment: around overlapWords words, one separator varied
LaterTexts ==
    {GenText(ntok, sepAt, sep, lead, trail) :
       ntok \in {0, 2, overlapWords, overlapWords + 1, overlapWords + 2},
       sepAt \in {1, overlapWords}, sep \in Separators,
       lead \in Leads, trail \in Trails}

\* texts of the segments after the second
TailTexts ==
    {GenText(ntok, 1, sep, <<>>, <<>>) :
       ntok \in {1, overlapWords + 1}, sep \in {<<" ">>, <<" ", " ">>}}

TextsAt(k) == IF k = 1 THEN FirstTexts
              ELSE IF k = 2 THEN LaterTexts ELSE TailTexts

MergeInputs ==
    UNION {{[k \in 1..n |-> [text |-> f[k]]] :
              f \in {g \in [1..n -> FirstTexts \cup LaterTexts \cup TailTexts] :
                       \A k \in 1..n : g[k] \in TextsAt(k)}} :
           n \in 1..MaxMergeSegs}

MergeInit == Idle /\ NoSplit /\ NoPublish /\ mergeIn \in MergeInputs /\ mergeOut = Null

MergeCall ==
    /\ mergeOut = Null
    /\ mergeOut' = [text |-> mergeTranscriptions(mergeIn)]
    /\ UNCHANGED <<pipelineVars, mergeIn, splitVars, publishVars>>

MergeNext == MergeCall

SpecMerge == MergeInit /\ [][MergeNext]_vars

-----------------------------------------------------------------------------
(* The chunk windows of splitAudioIntoChunks on their own *)

SplitInit ==
    Idle /\ NoMerge /\ NoPublish /\ splitIn \in 0..MaxSplitDuration /\ splitOut = Null

\* the loop over i < numChunks: one ffmpeg window per chunk
SplitCall ==
    /\ splitOut = Null
    /\ splitOut' = [windows |-> [k \in 1..NumChunks(splitIn) |->
                                   ChunkWindow(k - 1)]]
    /\ UNCHANGED <<pipelineVars, mergeVars, splitIn, publishVars>>

SplitNext == SplitCall

SpecSplit == SplitInit /\ [][SplitNext]_vars

-----------------------------------------------------------------------------
(* updateProgress called on its own *)

\* progress objects a job can have in the store
SampleProgress ==
    { EmptyProgress,
      [EmptyProgress EXCEPT !["metadata"] = StepEntry(100, "m"),
                            !["download"] = StepEntry(50, "m")],
      [EmptyProgress EXCEPT !["metadata"] = StepEntry(100, "m"),
                            !["error"] = StepEntry(100, "m"),
                            !["complete"] = True],
      [EmptyProgress EXCEPT !["metadata"] = StepEntry(100, "m"),
                            !["summary"] = StepEntry(100, "m"),
                            !["result"] = [success |-> TRUE],
                            !["complete"] = True] }

PublishStores ==
    UNION {[js -> SampleProgress] : js \in SUBSET AllJobs}

PublishPercentages == {0, 50, 100}

\* the step names the callers of updateProgress pass
PublishInputs ==
    [store : PublishStores, jobId : AllJobs, step : StepNames,
     percentage : PublishPercentages, message : {"m2"}]

PublishInit ==
    Idle /\ NoMerge /\ NoSplit /\ publishIn \in PublishInputs
         /\ publishOut = Null

PublishCall ==
    /\ publishOut = Null
    /\ publishOut' = [store |-> updateProgress(publishIn.store,
                                  publishIn.jobId, publishIn.step,
                                  publishIn.percentage, publishIn.message)]
    /\ UNCHANGED <<pipelineVars, mergeVars, splitVars, publishIn>>

PublishNext == PublishCall

SpecPublish == PublishInit /\ [][PublishNext]_vars

-----------------------------------------------------------------------------
(* Two requests handled concurrently, without optional keys configured *)

TwoInit == Idle /\ NoMerge /\ NoSplit /\ NoPublish

\* the steps of the handler of job j on the way of a file that needs no
\* splitting
TwoStep(j) ==
    \/ Submit(j)
    \/ MetadataReturn(j)
    \/ RssReturn(j)
    \/ ParseReturn(j)
    \/ DownloadResponse(j)
    \/ DownloadProgress(j)
    \/ DownloadFinish(j)
    \/ DownloadWriterError(j)
    \/ DownloadStreamError(j)
    \/ CompressReturn(j)
    \/ TranscribeReturn(j)
    \/ TranscribeFail(j)

NextTwo == (\E j \in AllJobs : TwoStep(j)) \/ Crash

SpecTwo == TwoInit /\ [][NextTwo]_vars

-----------------------------------------------------------------------------
(* Vocabulary of the properties *)

HasEntry(j) == j \in DOMAIN progressStore

\* the snapshot of job j shows complete: true
Complete(j) == HasEntry(j) /\ progressStore[j]["complete"] = True

HasResult(j) == HasEntry(j) /\ Truthy(progressStore[j]["result"])

ErrorPublished(j) == HasEntry(j) /\ IsEntry(progressStore[j]["error"])

At100(v) == IsEntry(v) /\ v.percentage = 100

\* scratch files whose name starts with the job's download name
ScratchFiles(j) ==
    {f \in files : /\ job[j].filepath # Null
                   /\ f.episode = job[j].filepath.episode
                   /\ f.stamp = job[j].filepath.stamp}

\* the handler of job j has ended
Halted(j) == pc[j] \in {"returned", "rejected"}

\* whitespace-delimited tokens of a text: maximal runs of non-whitespace
WsTokens(s) ==
    LET solid(i) == i >= 1 /\ i <= Len(s) /\ s[i] \notin Whitespace
        starts == {i \in 1..Len(s) : solid(i) /\ ~solid(i - 1)}
        ends == {i \in 1..Len(s) : solid(i) /\ ~solid(i + 1)}
    IN  [k \in 1..Cardinality(starts) |->
           SubSeq(s, Nth(starts, k), Nth(ends, k))]

\* the tokens the merged text should consist of: all tokens of the first
\* segment, then those of every later segment after its first twenty
RECURSIVE RetainedTokens(_, _)
RetainedTokens(transcriptions, k) ==
    IF k > Len(transcriptions) THEN <<>>
    ELSE (IF k = 1 THEN WsTokens(transcriptions[k].text)
          ELSE Slice(WsTokens(transcriptions[k].text), 20))
         \o RetainedTokens(transcriptions, k + 1)

Min(a, b) == IF a <= b THEN a ELSE b

\* seconds of source audio of duration d that windows w1 and w2 both contain
OverlapSeconds(w1, w2, d) ==
    LET end1 == Min(w1.start + w1.span, d)
        end2 == Min(w2.start + w2.span, d)
        lo == Max(w1.start, w2.start)
        hi == Min(end1, end2)
    IN  Max(0, hi - lo)

-----------------------------------------------------------------------------
(* C1: once a job's snapshot shows complete: true, no scratch file created  *)
(* by that job (download, compressed file, chunk) remains in storage.       *)
C1_NoScratchFileAfterTerminal ==
    \A j \in AllJobs : Complete(j) => ScratchFiles(j) = {}

(* C2: once an 'error' entry is published the snapshot shows complete: true *)
(* from then on, no later pipeline step is started, and no step entry other *)
(* than 'error' reaches 100% afterwards.                                    *)
C2_NeverAdvancesPastError ==
    [][\A j \in AllJobs :
         ErrorPublished(j) =>
           /\ Complete(j)
           /\ j \in DOMAIN progressStore'
           /\ progressStore'[j]["complete"] = True
           /\ pc[j] \in {"returned", "rejected", "rss_webhook"}
           /\ pc'[j] \in {"returned", "rejected", "rss_webhook"}
           /\ hist'[j].calls = hist[j].calls
           /\ hist'[j].ffmpeg = hist[j].ffmpeg
           /\ \A s \in StepNames \ {"error", "complete"} :
                At100(progressStore'[j][s]) => At100(progressStore[j][s])
      ]_vars

(* C3: after a job's snapshot has complete: true, no later action changes   *)
(* any step entry, the result or the error of its table entry (the entry    *)
(* may only be evicted as a whole).                                         *)
C3_TerminalIsAbsorbing ==
    [][\A j \in AllJobs :
         Complete(j) =>
           \/ j \notin DOMAIN progressStore'
           \/ progressStore'[j] = progressStore[j]
      ]_vars

C5_ChunkCountAndWindows ==
    splitOut # Null =>
      LET n == Len(splitOut.windows)
      IN  /\ n * 600 >= splitIn
          /\ n > 0 => (n - 1) * 600 < splitIn
          /\ \A i \in 0..(n - 1) :
               /\ splitOut.windows[i + 1].index = i
               /\ splitOut.windows[i + 1].start =
                    (IF i * 600 - 10 < 0 THEN 0 ELSE i * 600 - 10)
               /\ splitOut.windows[i + 1].span = 610

C5_Witness ==
    /\ splitOut # Null
    /\ splitIn = 2100
    /\ Len(splitOut.windows) = 4
    /\ splitOut.windows[4].start = 1790

(* C6: every consecutive pair of segments (i, i+1), the pair (0, 1) and the *)
(* last pair included, overlaps by exactly 10 seconds of source audio.      *)
C6_OverlapExactlyTen ==
    splitOut # Null =>
      \A k \in 1..(Len(splitOut.windows) - 1) :
        OverlapSeconds(splitOut.windows[k], splitOut.windows[k + 1],
                       splitIn) = 10

(* C7: a download of at most 25 MB whose file after the compression attempt *)
(* is still at most 25 MB is one segment: no split, exactly one             *)
(* transcription call, the Result's transcript is that call's text          *)
(* verbatim; in every other case the audio is split.                        *)
C7_SingleSegmentWhenUnderCeiling ==
    \A j \in AllJobs :
      /\ (job[j].compressedPath # Null /\ job[j].finalSize <= 25 * 1048576) =>
           /\ job[j].fileSize <= 25 * 1048576
           /\ job[j].inputPath = Null
           /\ hist[j].ffmpeg = <<>>
           /\ HasEntry(j) => progressStore[j]["splitting"] = Undefined
           /\ hist[j].merged = <<>>
           /\ Len(hist[j].calls) = 1
           /\ hist[j].calls[1].chunk = -1
           /\ HasResult(j) =>
                /\ Len(hist[j].answers) = 1
                /\ progressStore[j]["result"].transcript.text =
                     hist[j].answers[1].text
      /\ ((job[j].tempFilePath # Null \/ HasResult(j))
          /\ job[j].fileSize <= 25 * 1048576) =>
           /\ pc[j] = "compress" \/ job[j].compressedPath # Null
           /\ job[j].inputPath # Null =>
                /\ job[j].finalSize > 25 * 1048576
                /\ job[j].inputPath = job[j].compressedPath
      /\ (job[j].compressedPath # Null /\ job[j].finalSize > 25 * 1048576) =>
           /\ job[j].inputPath = job[j].compressedPath
           /\ \A k \in 1..Len(hist[j].calls) : hist[j].calls[k].chunk >= 0
      /\ ((job[j].tempFilePath # Null \/ HasResult(j))
          /\ job[j].fileSize > 25 * 1048576) =>
           /\ job[j].compressedPath = Null
           /\ job[j].inputPath # Null
           /\ \A k \in 1..Len(hist[j].calls) : hist[j].calls[k].chunk >= 0

C7_Witness ==
    \E j \in AllJobs :
      /\ HasResult(j)
      /\ job[j].fileSize = 25 * 1048576
      /\ job[j].inputPath = Null
      /\ Len(hist[j].calls) = 1
      /\ progressStore[j]["result"].transcript.text = <<" ", "s">>

(* C8: merging exactly one segment transcript returns its text with the     *)
(* whitespace at the edges trimmed, and merging the returned text again as  *)
(* a single segment returns the same text.                                  *)
C8_SingleMergeTrimmed ==
    (mergeOut # Null /\ Len(mergeIn) = 1) =>
      /\ mergeOut.text = Trim(mergeIn[1].text)
      /\ mergeTranscriptions(<<mergeOut>>) = mergeOut.text

(* C9: merging N > 1 segments keeps the first segment's text and drops from *)
(* every later segment exactly its first 20 whitespace-delimited tokens     *)
(* (any run of whitespace is one delimiter) before appending the rest.      *)
C9_DropsTwentyTokens ==
    (mergeOut # Null /\ Len(mergeIn) > 1) =>
      WsTokens(mergeOut.text) = RetainedTokens(mergeIn, 1)

(* C10: the merge only ever receives the transcripts of all N segments,     *)
(* indices 0..N-1 in order; when a segment's transcript is missing the job  *)
(* fails with an error instead of producing a merged transcript.            *)
C10_MergeGetsAllSegmentsOrFails ==
    \A j \in AllJobs :
      LET answers == hist[j].answers
          missing == \E k \in 1..Len(answers) : ~answers[k].ok
      IN  /\ \A m \in 1..Len(hist[j].merged) :
               /\ Len(hist[j].merged[m]) = job[j].numChunks
               /\ ~missing
               /\ \A i \in 0..(job[j].numChunks - 1) :
                    \E k \in 1..Len(answers) :
                      /\ answers[k].ok
                      /\ answers[k].path = ChunkPath(job[j].inputPath, i)
                      /\ hist[j].merged[m][i + 1] = [text |-> answers[k].text]
          /\ (missing \/ (job[j].inputPath # Null /\ Halted(j)
                          /\ Len(answers) < job[j].numChunks)) =>
               /\ hist[j].merged = <<>>
               /\ ~HasResult(j)
               /\ ErrorPublished(j)
               /\ job[j].transcript = Null

C10_Witness ==
    \E j \in AllJobs :
      /\ Len(hist[j].answers) = 3
      /\ hist[j].answers[1].ok
      /\ hist[j].answers[2].ok
      /\ ~hist[j].answers[3].ok
      /\ job[j].numChunks = 4
      /\ ErrorPublished(j)

-----------------------------------------------------------------------------
(* Progress streams and result reads *)

\* job j was accepted: the handler answered with its id
Accepted(j) == pc[j] # "idle" /\ job[j].spotifyUrl.kind # "missing"

(* C11: a progress stream that is connected when its job's snapshot shows   *)
(* complete: true is eventually sent that snapshot (unless the client       *)
(* leaves first); the snapshot with complete: true is the last thing sent   *)
(* on the stream, and the server ends the stream with it.                   *)
C11_StreamEndsWithComplete ==
    /\ \A s \in Streams :
         (/\ streams[s].status = "open"
          /\ streams[s].early
          /\ Complete(streams[s].jobId))
           ~> (streams[s].status \in {"ended", "gone"})
    /\ [](\A s \in Streams :
            (streams[s].done <=> streams[s].status = "ended"))
    /\ [][\A s \in Streams :
            streams[s].status = "ended" => streams'[s] = streams[s]]_vars

(* C14: every accepted job eventually shows complete: true, given that      *)
(* every external call eventually returns or fails.                         *)
C14_EveryJobTerminates ==
    \A j \in OneJob : Accepted(j) ~> (Complete(j) \/ hist[j].evicted)

\* the answer just sent, if it was about job j
Answer(j) == IF response # Null /\ response.jobId = j THEN response ELSE Null

(* C12: a result read answers 404 exactly when the table has no entry for   *)
(* the job; with an entry it answers 200 with the stored Result exactly     *)
(* when the job has its Result, 500 with the failure message exactly when   *)
(* the job failed, and 202 with nothing of the job in it in every other     *)
(* state.                                                                   *)
C12_ResultReadByState ==
    \A j \in AllJobs :
      Answer(j) # Null =>
        LET a == Answer(j)
        IN  /\ a.status \in {404, 200, 500, 202}
            /\ a.status = 404 <=> ~HasEntry(j)
            /\ a.status = 200 <=>
                 (Complete(j) /\ HasResult(j) /\ ~ErrorPublished(j))
            /\ a.status = 200 =>
                 /\ a.body = [success |-> TRUE,
                              transcript |-> job[j].transcript,
                              summary |-> job[j].summary]
                 /\ job[j].transcript # Null
                 /\ Halted(j)
            /\ a.status = 500 <=> (Complete(j) /\ ErrorPublished(j))
            /\ a.status = 500 =>
                 /\ hist[j].failure # Null
                 /\ a.body = [error |-> hist[j].failure.message]
            /\ a.status = 202 <=> (HasEntry(j) /\ ~Complete(j))
            /\ a.status = 202 =>
                 a.body = [message |-> "Transcription still in progress"]

C12_Witness ==
    \E j \in AllJobs :
      /\ Answer(j) # Null
      /\ Answer(j).status = 500
      /\ pc[j] = "rejected"

(* C13: every job whose snapshot shows complete: true is eventually         *)
(* removed from the table, whether or not its result is read.               *)
C13_TerminalJobsAreEvicted ==
    \A j \in OneJob : Complete(j) ~> ~HasEntry(j)

-----------------------------------------------------------------------------
(* Failure paths *)

\* the handler of job j will not run again: it has ended, or the promise it
\* awaits can no longer settle
Stopped(j) == Halted(j) \/ pc[j] = "hung"

(* C15: when the handler of a job gives up (an exception reaches the catch  *)
(* block, or one of the early returns for missing metadata, missing feed or *)
(* missing audio URL is taken), the snapshot has, from that step on, an     *)
(* 'error' entry at 100% with the failure message and complete: true; a     *)
(* job that has stopped without a Result has such an entry.                 *)
C15_FailurePublishesError ==
    \A j \in AllJobs :
      /\ (hist[j].failure # Null /\ ~hist[j].evicted) =>
           /\ HasEntry(j)
           /\ progressStore[j]["error"] =
                StepEntry(100, hist[j].failure.message)
           /\ progressStore[j]["complete"] = True
           /\ pc[j] \in {"returned", "rejected", "rss_webhook"}
      /\ (Accepted(j) /\ Stopped(j) /\ job[j].transcript = Null) =>
           hist[j].failure # Null

(* C16: after a failed compression the job goes on with the downloaded      *)
(* file: that file is what is sent to the provider, it stays in storage     *)
(* until the handler is past transcription and summary, the only failure    *)
(* the job can then meet is a failed provider call, and a handler that      *)
(* ends without failure has stored the Result.                              *)
C16_CompressionFailureIsNotFatal ==
    \A j \in AllJobs :
      hist[j].compress = "failed" =>
        /\ job[j].compressedPath = job[j].filepath
        /\ job[j].inputPath = Null
        /\ pc[j] \in {"transcribe", "summarise", "summary_webhook",
                      "returned", "rejected"}
        /\ \A k \in 1..Len(hist[j].calls) : hist[j].calls[k] = job[j].filepath
        /\ pc[j] \in {"transcribe", "summarise", "summary_webhook"} =>
             job[j].filepath \in files
        /\ hist[j].failure # Null =>
             \E k \in 1..Len(hist[j].answers) : ~hist[j].answers[k].ok
        /\ (pc[j] = "returned" /\ ~hist[j].evicted) =>
             /\ Complete(j)
             /\ HasResult(j)
             /\ progressStore[j]["result"].transcript = job[j].transcript
             /\ job[j].transcript # Null

C16_Witness ==
    \E j \in AllJobs :
      /\ hist[j].compress = "failed"
      /\ HasResult(j)
      /\ Len(hist[j].answers) = 1

\* the message summariseWithGemini leaves in the 'summary' entry per cause
SummaryFailureMessage(cause) ==
    CASE cause = "nokey" -> "Summary skipped (Gemini API key not configured)"
      [] cause = "empty" -> "Summary skipped (no response from Gemini)"
      [] cause = "error" -> "Could not generate summary (Gemini error)"

(* C17: when summarisation fails (no API key, empty response, provider      *)
(* error) the summary is null, the 'summary' entry is at 100% with the      *)
(* message of that cause, the job does not fail, and once the handler has   *)
(* returned the snapshot is complete with a Result holding the transcript   *)
(* and a null summary.                                                      *)
C17_SummaryFailureStillCompletes ==
    \A j \in AllJobs :
      hist[j].summary \in {"nokey", "empty", "error"} =>
        /\ job[j].summary = Null
        /\ job[j].transcript # Null
        /\ hist[j].failure = Null
        /\ pc[j] \in {"summary_webhook", "returned"}
        /\ pc[j] = "summary_webhook" =>
             (hist[j].summary = "error" /\ env.webhookUrl)
        /\ hist[j].summary = "nokey" <=> ~env.geminiKey
        /\ HasEntry(j) =>
             /\ progressStore[j]["summary"] =
                  StepEntry(100, SummaryFailureMessage(hist[j].summary))
             /\ ~ErrorPublished(j)
        /\ (pc[j] = "returned" /\ ~hist[j].evicted) =>
             /\ Complete(j)
             /\ progressStore[j]["result"] =
                  [success |-> TRUE, transcript |-> job[j].transcript,
                   summary |-> Null]

C17_Witness ==
    \E j \in AllJobs :
      /\ hist[j].summary = "error"
      /\ env.webhookUrl
      /\ HasResult(j)
      /\ progressStore[j]["result"].summary = Null

(* C18: when the id of an accepted job has been returned no step of the     *)
(* pipeline has completed yet (the entry holds 'metadata' at 0% and nothing *)
(* else) and the handler goes on by itself; from then until the entry is    *)
(* evicted the table has an entry for the job, and no result read for the   *)
(* job answers 404.                                                         *)
C18_EntryExistsFromSubmission ==
    \A j \in AllJobs :
      /\ pc[j] = "metadata" =>
           /\ HasEntry(j)
           /\ progressStore[j] =
                [EmptyProgress EXCEPT
                   !["metadata"] = StepEntry(0, "Fetching Spotify metadata...")]
      /\ (Accepted(j) /\ ~hist[j].evicted) => HasEntry(j)
      /\ (Answer(j) # Null /\ Answer(j).status = 404) =>
           (~Accepted(j) \/ hist[j].evicted)

C18_Witness ==
    \E j \in AllJobs :
      /\ pc[j] = "metadata"
      /\ Answer(j) # Null
      /\ Answer(j).status = 202

\* the step closes stream s from the client's side
Disconnects(s) ==
    streams[s].status = "open" /\ streams'[s].status = "gone"

(* C19: a client closing its progress stream changes nothing of any job:    *)
(* the table, the handlers' positions and locals, the files, the number of  *)
(* pending eviction timers and the server stay as they are.                 *)
C19_DisconnectLeavesJobAlone ==
    [][\A s \in Streams :
         Disconnects(s) =>
           /\ UNCHANGED <<alive, env, pc, progressStore, files, job, hist>>
           /\ \A j \in AllJobs : Len(timers'[j]) = Len(timers[j])
      ]_vars

C19_Witness ==
    \E s \in Streams :
      /\ streams[s].status = "gone"
      /\ pc[streams[s].jobId] = "transcribe"
      /\ Len(hist[streams[s].jobId].answers) = 1

(* C20: the chunk file of a segment whose transcription call has returned,  *)
(* with a text or with a failure, is no longer in storage once the unlink   *)
(* that follows the call is done, in particular when the call for the next  *)
(* segment is in flight.                                                    *)
C20_ChunkDeletedAfterItsCall ==
    \A j \in AllJobs :
      \A k \in 1..Len(hist[j].answers) :
        hist[j].answers[k].path.chunk # -1 =>
          \/ hist[j].answers[k].path \notin files
          \/ pc[j] = "chunk_cleanup" /\ k = Len(hist[j].answers)

-----------------------------------------------------------------------------
(* Scratch files, progress entries and step order *)

(* C21: once the handler of a job has ended, the file its download created  *)
(* is no longer in storage, whatever step the job ended in (the download    *)
(* itself included); and while a step that reads the download is pending    *)
(* (compression, probing and splitting of the download, the single          *)
(* transcription call on it) the file is in storage.                        *)
C21_DownloadFileLifetime ==
    \A j \in AllJobs :
      /\ Halted(j) => job[j].filepath \notin files
      /\ pc[j] = "compress" => job[j].tempFilePath \in files
      /\ (pc[j] \in {"probe", "split"}
          /\ job[j].inputPath = job[j].tempFilePath) =>
           job[j].tempFilePath \in files
      /\ (pc[j] = "transcribe"
          /\ hist[j].calls[Len(hist[j].calls)] = job[j].tempFilePath) =>
           job[j].tempFilePath \in files

(* C22: every published percentage lies in 0..100, and for every step name  *)
(* of every job the percentage of the entry never goes down from one state  *)
(* to the next.                                                             *)
C22_PercentageMonotone ==
    [][\A j \in AllJobs : \A step \in StepNames :
         (j \in DOMAIN progressStore' /\ IsEntry(progressStore'[j][step])) =>
           /\ progressStore'[j][step].percentage \in 0..100
           /\ (j \in DOMAIN progressStore /\ IsEntry(progressStore[j][step])) =>
                progressStore'[j][step].percentage
                  >= progressStore[j][step].percentage
      ]_vars

(* C23: in a snapshot that holds a Result every step that has an entry has  *)
(* it at 100%.                                                              *)
C23_CompleteMeansAllStepsAt100 ==
    \A j \in AllJobs :
      HasResult(j) =>
        \A step \in StepNames :
          IsEntry(progressStore[j][step]) =>
            progressStore[j][step].percentage = 100

\* the steps in the order the handler goes through them
StepOrder == <<"metadata", "rss", "parse", "download", "compress",
               "splitting", "transcribe", "merge", "summary", "complete">>

\* what the table holds for a step of a job
EntryOf(st, j, step) == IF j \in DOMAIN st THEN st[j][step] ELSE Undefined

(* C24: whenever a step of a job that has not failed publishes (its slot in *)
(* the snapshot changes), no step later in the order metadata, rss, parse, download,     *)
(* compress, splitting, transcribe, merge, summary, complete has published  *)
(* yet; and when a step publishes for the first time, every earlier step    *)
(* that has published is at 100%, or is the compression that failed.        *)
C24_StepsInFixedOrder ==
    [][\A j \in AllJobs : \A r \in 1..Len(StepOrder) :
         LET step == StepOrder[r]
             old == EntryOf(progressStore, j, step)
             new == EntryOf(progressStore', j, step)
         IN  (/\ new # old
              /\ Truthy(new)
              /\ ~Truthy(EntryOf(progressStore', j, "error"))) =>
               /\ \A q \in (r + 1)..Len(StepOrder) :
                    ~Truthy(EntryOf(progressStore, j, StepOrder[q]))
               /\ ~Truthy(old) =>
                    \A q \in 1..(r - 1) :
                      LET before == EntryOf(progressStore', j, StepOrder[q])
                      IN  IsEntry(before) =>
                            \/ before.percentage = 100
                            \/ /\ StepOrder[q] = "compress"
                               /\ hist'[j].compress = "failed"
      ]_vars

C24_Witness ==
    \E j \in AllJobs :
      /\ HasResult(j)
      /\ \A step \in {"metadata", "rss", "parse", "download", "compress",
                      "splitting", "transcribe", "merge", "summary"} :
           IsEntry(progressStore[j][step])

\* the file handed to the provider call that is in flight
CurrentCall(j) == hist[j].calls[Len(hist[j].calls)]

(* C25: compression, probing and splitting are pending only when the        *)
(* download has been written to its end and is in storage; the file being   *)
(* split is in storage; a file is in a transcription call only while it is  *)
(* in storage, and a chunk only after the transcode of every chunk has      *)
(* ended; the compressed file is gone only after the call on it, or on      *)
(* every chunk cut from it, has returned a text.                            *)
C25_NoReadBeforeWriteOrAfterDelete ==
    \A j \in AllJobs :
      /\ pc[j] \in {"compress", "probe", "split"} =>
           /\ job[j].tempFilePath = job[j].filepath
           /\ ~job[j].streamOpen
           /\ job[j].tempFilePath \in files
      /\ pc[j] \in {"probe", "split"} =>
           /\ job[j].inputPath \in files
           /\ job[j].inputPath \in {job[j].tempFilePath, job[j].compressedPath}
      /\ pc[j] = "transcribe" =>
           /\ CurrentCall(j) \in files
           /\ IF job[j].inputPath = Null
              THEN CurrentCall(j) = job[j].compressedPath
              ELSE /\ Len(job[j].chunks) = job[j].numChunks
                   /\ Len(hist[j].ffmpeg) = job[j].numChunks
                   /\ CurrentCall(j) = ChunkPath(job[j].inputPath, job[j].i)
                   /\ job[j].inputPath \in files
      /\ (/\ job[j].compressedPath # Null
          /\ job[j].compressedPath # job[j].filepath
          /\ job[j].compressedPath \notin files) =>
           /\ \A k \in 1..Len(hist[j].answers) : hist[j].answers[k].ok
           /\ Len(hist[j].answers) =
                IF job[j].inputPath = Null THEN 1 ELSE job[j].numChunks
           /\ hist[j].inFlight = 0

C25_Witness ==
    \E j \in AllJobs :
      /\ job[j].compressedPath # Null
      /\ job[j].compressedPath # job[j].filepath
      /\ job[j].inputPath = job[j].compressedPath
      /\ job[j].compressedPath \notin files
      /\ job[j].numChunks = 2
      /\ HasResult(j)

\* the transcode of a chunk of job j has failed
SplitFailed(j) == hist[j].failure = [message |-> "ffmpeg failed"]

(* C26: ffmpeg is run once per chunk, in index order; after a failed run    *)
(* the handler has ended in its catch block with the 'error' entry          *)
(* published, no file of the job has been sent to the provider, nothing     *)
(* has been merged and there is no Result.                                  *)
C26_SplitFailureIsFatal ==
    \A j \in AllJobs :
      /\ \A k \in 1..Len(hist[j].ffmpeg) : hist[j].ffmpeg[k].index = k - 1
      /\ Len(hist[j].ffmpeg) <= job[j].numChunks
      /\ SplitFailed(j) =>
           /\ pc[j] = "rejected"
           /\ hist[j].calls = <<>>
           /\ hist[j].merged = <<>>
           /\ job[j].transcript = Null
           /\ ~HasResult(j)
           /\ ErrorPublished(j)
           /\ Complete(j)
           /\ Len(job[j].chunks) < job[j].numChunks

C26_Witness ==
    \E j \in AllJobs :
      /\ SplitFailed(j)
      /\ Len(job[j].chunks) = 1
      /\ job[j].numChunks = 2

\* the download of job j has gone wrong in one of the three ways: the request
\* was rejected (network failure or a status outside 2xx), the body broke off,
\* or the body ended with no content
DownloadWentWrong(j) ==
    \/ hist[j].failure = [message |-> "Request failed"]
    \/ pc[j] = "hung"
    \/ /\ job[j].fileSize = 0
       /\ job[j].tempFilePath # Null \/ job[j].transcript # Null

(* C27: after a download that met a network failure, a status outside 2xx   *)
(* or zero-length content, no compression and no splitting has been run     *)
(* and no file has been sent to the provider, and the job has stopped with  *)
(* the 'error' entry published and complete: true.                          *)
C27_DownloadFailureStopsJob ==
    \A j \in AllJobs :
      DownloadWentWrong(j) =>
        /\ hist[j].compress = "none"
        /\ hist[j].ffmpeg = <<>>
        /\ hist[j].calls = <<>>
        /\ pc[j] \in {"hung", "returned", "rejected"}
        /\ ErrorPublished(j)
        /\ Complete(j)


(* C28: publish(jobId, step, percentage, message) replaces the entry of     *)
(* exactly that step of exactly that job: afterwards that step holds the    *)
(* new entry, and every other step entry of the job, the job's result, the  *)
(* job's complete marker and the entry of every other job are what they     *)
(* were before the call.                                                    *)
C28_PublishChangesOneEntry ==
    publishOut # Null =>
      LET before == publishIn.store
          after == publishOut.store
          j == publishIn.jobId
          step == publishIn.step
      IN  /\ DOMAIN after = DOMAIN before \cup {j}
          /\ after[j][step] =
               StepEntry(publishIn.percentage, publishIn.message)
          /\ \A k \in StepNames \ {step} :
               after[j][k] = GetOrEmpty(before, j)[k]
          /\ after[j]["result"] = GetOrEmpty(before, j)["result"]
          /\ after[j]["complete"] = GetOrEmpty(before, j)["complete"]
          /\ \A o \in DOMAIN before \ {j} : after[o] = before[o]


\* the scratch paths the handler of job j holds in its local variables
PathsOf(j) ==
    ({job[j].filepath, job[j].tempFilePath, job[j].compressedPath,
      job[j].inputPath} \ {Null})
    \cup {job[j].chunks[k] : k \in 1..Len(job[j].chunks)}

\* the handler of job j is between its submission and its end
Running(j) == pc[j] \notin {"idle", "returned", "rejected"}

(* C29: two jobs that run at the same time never hold the same scratch     *)
(* file path, also when both are for the same episode and both enter the   *)
(* download at the same clock value; so no job writes, reads or deletes a  *)
(* file of another job.                                                    *)
C29_ScratchPathsDisjoint ==
    \A a, b \in AllJobs :
      (a # b /\ Running(a) /\ Running(b)) =>
        PathsOf(a) \cap PathsOf(b) = {}


\* the step taken is not one of the handler of job b
NotStepOf(b) == pc'[b] = pc[b] /\ job'[b] = job[b] /\ hist'[b] = hist[b]

\* the table entry of job b is left as it is
EntryUntouched(b) ==
    /\ (b \in DOMAIN progressStore') = (b \in DOMAIN progressStore)
    /\ b \in DOMAIN progressStore => progressStore'[b] = progressStore[b]

(* C30: jobs are independent: a step that is not a step of job b, whatever *)
(* it does for another job and also when it handles that job's failure,    *)
(* leaves the table entry of b as it is, and if b is running the server    *)
(* is still there afterwards to run b to its end.                          *)
C30_JobsIndependent ==
    [][\A b \in AllJobs :
         NotStepOf(b) =>
           /\ EntryUntouched(b)
           /\ Running(b) => alive'
      ]_vars


\* what the merge keeps of segment k: the whole first text, of a later text
\* what follows its first overlapWords pieces
RetainedPart(transcriptions, k) ==
    IF k = 1 THEN transcriptions[k].text
    ELSE TextWithoutOverlap(transcriptions[k].text)

\* position in the concatenation before the first character of part k, when
\* one character stands between consecutive parts
RECURSIVE PartOffset(_, _)
PartOffset(parts, k) ==
    IF k = 1 THEN 0
    ELSE PartOffset(parts, k - 1) + Len(parts[k - 1]) + 1

\* raw consists of the parts in order with exactly one space between
\* consecutive parts and nothing else
SingleSpaceJoin(raw, parts) ==
    LET n == Len(parts)
    IN  /\ Len(raw) = PartOffset(parts, n) + Len(parts[n])
        /\ \A k \in 1..n :
             /\ SubSeq(raw, PartOffset(parts, k) + 1,
                       PartOffset(parts, k) + Len(parts[k])) = parts[k]
             /\ k < n => raw[PartOffset(parts, k) + Len(parts[k]) + 1] = " "

\* out is raw without the whitespace at its two ends
EdgesTrimmed(out, raw) ==
    /\ out # <<>> => out[1] \notin Whitespace /\ out[Len(out)] \notin Whitespace
    /\ \E a, b \in 0..Len(raw) :
         /\ out = SubSeq(raw, a + 1, b)
         /\ \A i \in 1..Len(raw) : (i <= a \/ i > b) => raw[i] \in Whitespace

C32_SnapshotConsistent ==
    \A j \in DOMAIN progressStore :
      LET progress == progressStore[j]
      IN  /\ Truthy(progress["complete"]) <=>
               (Truthy(progress["result"]) \/ Truthy(progress["error"]))
          /\ ~(Truthy(progress["result"]) /\ Truthy(progress["error"]))

\* a failed job's snapshot read by GET /api/result: 'error' entry and marker
C32_Witness ==
    /\ response # Null
    /\ response.status = 500
    /\ ErrorPublished(response.jobId)
    /\ Complete(response.jobId)
    /\ ~HasResult(response.jobId)


(* C33: a progress stream that is open on the id of a job whose handler    *)
(* has ended, whenever it was opened, is delivered a snapshot with         *)
(* complete: true and closed by the server at its next tick: as long as    *)
(* such a stream is open the table holds the job's snapshot with           *)
(* complete: true for the interval to find.                                *)
C33_LateStreamGetsComplete ==
    \A s \in Streams :
      LET j == streams[s].jobId
      IN  (streams[s].status = "open" /\ Accepted(j) /\ Halted(j)) =>
            Complete(j)


\* the Result the handler of job j builds from its local variables
ResultOf(j) ==
    [success |-> TRUE, transcript |-> job[j].transcript,
     summary |-> job[j].summary]

\* the step taken answers a result read of job j
ReadAnswered(j) == response' # Null /\ response'.jobId = j

(* C34: result reads of a Complete job are repeatable.  Every read while   *)
(* the entry holds the Result is answered 200 with the same Result, leaves *)
(* the entry as it is and sets one more timer behind those pending; the    *)
(* stored Result never changes; the entry is removed only by the firing of *)
(* a timer, timers are set only by such reads, so never before a first     *)
(* read; and the firing of the oldest timer, the one of the first read,    *)
(* removes the entry whatever reads came after it.                         *)
C34_ResultReadsRepeatable ==
    [][\A j \in AllJobs :
         /\ (ReadAnswered(j) /\ HasResult(j)) =>
              /\ response'.status = 200
              /\ response'.body = ResultOf(j)
              /\ progressStore' = progressStore
              /\ timers'[j] = Append(timers[j], OpenStreams(j))
         /\ (HasResult(j) /\ j \in DOMAIN progressStore') =>
              progressStore'[j]["result"] = progressStore[j]["result"]
         /\ (HasEntry(j) /\ j \notin DOMAIN progressStore') =>
              /\ HasResult(j)
              /\ timers[j] # <<>>
              /\ timers'[j] = Tail(timers[j])
         /\ Len(timers'[j]) > Len(timers[j]) =>
              /\ ReadAnswered(j)
              /\ response'.status = 200
         /\ (HasResult(j) /\ Len(timers'[j]) < Len(timers[j])) =>
              j \notin DOMAIN progressStore'
      ]_vars

\* a second read answered with the Result while the first read's timer is
\* pending
C34_Witness ==
    /\ response # Null
    /\ response.status = 200
    /\ response.body = ResultOf(response.jobId)
    /\ HasResult(response.jobId)
    /\ Len(timers[response.jobId]) = 2


\* messages of the three early returns, which do not go through the catch
\* block
EarlyReturnMessages ==
    {"Could not fetch episode data from Spotify", "Unable to find RSS feed",
     "No audio URL found for this episode"}

\* a step of job j threw and the catch block has marked the job complete
StepThrew(j) ==
    /\ hist[j].failure # Null
    /\ hist[j].failure.message \notin EarlyReturnMessages
    /\ HasEntry(j) => Complete(j)

(* C35: when a step of the pipeline throws, the catch block, after marking *)
(* the job complete, posts exactly one error notification if a webhook is  *)
(* configured (none otherwise) and the handler then returns: it does not   *)
(* end by raising another error.                                           *)
C35_CatchNotifiesOnceAndReturns ==
    \A j \in AllJobs :
      StepThrew(j) =>
        /\ pc[j] = "returned"
        /\ hist[j].webhooks = (IF env.webhookUrl THEN 1 ELSE 0)


\* stream s has delivered a snapshot with complete: true for its job, and
\* the step just taken answered a result read of that job
ReadAfterComplete(s) ==
    /\ streams[s].done
    /\ response # Null
    /\ response.jobId = streams[s].jobId

(* C36: a result read made after a progress stream has delivered a         *)
(* snapshot with complete: true for the job is never answered 202: it is   *)
(* answered 200 with the Result of a Complete job, 500 with the error      *)
(* message of a Failed job, or 404 once the entry has been evicted.        *)
C36_NoStillProcessingAfterComplete ==
    \A s \in Streams :
      ReadAfterComplete(s) =>
        LET j == response.jobId
        IN  \/ /\ response.status = 200
               /\ response.body = ResultOf(j)
               /\ hist[j].failure = Null
            \/ /\ response.status = 500
               /\ hist[j].failure # Null
               /\ response.body = [error |-> hist[j].failure.message]
            \/ /\ response.status = 404
               /\ hist[j].evicted

\* a read after complete: true was delivered and the entry was evicted
C36_Witness ==
    \E s \in Streams :
      /\ ReadAfterComplete(s)
      /\ response.status = 404
      /\ hist[response.jobId].evicted


\* instant t (a second of the source audio) lies inside window w
InWindow(t, w) == w.start <= t /\ t < w.start + w.span

(* C37: for every duration D > 0 that is split, the windows of the         *)
(* ceil(D / 600) segments together cover the audio: every instant t with   *)
(* 0 <= t < D lies inside the window of at least one segment.              *)
C37_WindowsCoverAudio ==
    (splitOut # Null /\ splitIn > 0) =>
      /\ Len(splitOut.windows) = Ceil(splitIn, 600)
      /\ \A t \in 0..(splitIn - 1) :
           \E k \in 1..Len(splitOut.windows) : InWindow(t, splitOut.windows[k])

\* a duration just above two chunk lengths: its last second lies in the
\* third window only
C37_Witness ==
    /\ splitOut # Null
    /\ splitIn = 1201
    /\ Len(splitOut.windows) = 3
    /\ InWindow(1200, splitOut.windows[3])
    /\ ~InWindow(1200, splitOut.windows[2])


(* C38: a job whose snapshot holds a Result has had at least one           *)
(* transcription call return a text, and its transcript was built from at  *)
(* least one segment, whatever duration the splitter measured.             *)
C38_ResultNeedsATranscription ==
    \A j \in AllJobs :
      HasResult(j) =>
        /\ \E k \in 1..Len(hist[j].answers) : hist[j].answers[k].ok
        /\ hist[j].merged # <<>> =>
             \A m \in 1..Len(hist[j].merged) : hist[j].merged[m] # <<>>

====
